---- MODULE Spec2Model ----
(***************************************************************************)
(* Model of the alice-skill webhook (cmd/skill/app.go) and of its          *)
(* PostgreSQL store (internal/store/pg/store.go).                          *)
(*                                                                         *)
(* The database is the two tables that Store.Bootstrap creates:            *)
(*   users(id PRIMARY KEY, username) with a UNIQUE INDEX on username       *)
(*   messages(id serial PRIMARY KEY, sender, recepient, payload, sent_at,  *)
(*            read_at DEFAULT NULL), no foreign keys                       *)
(* Spec: one action is one whole webhook request, requests one at a time.  *)
(* SpecConc: requests of different callers in flight together, one action  *)
(* is one store call of a request with the handler code up to the next     *)
(* store call.                                                             *)
(***************************************************************************)
EXTENDS Integers, Sequences, FiniteSets, TLC

VARIABLES users, messages, nextId, last, inflight

vars == <<users, messages, nextId, last, inflight>>

---------------------------------------------------------------------------
(* Bounds of the model *)

\* at most this many rows in table messages
MaxMsgs == 2
\* the ordinals a read command carries are 0 .. MaxOrdinal
MaxOrdinal == 2

---------------------------------------------------------------------------
(* Input domains *)

\* values of session.user.user_id
UserIDs == {"u1", "u2"}
\* usernames a command can carry
Usernames == {"alice", "bob"}
\* message texts a send command can carry
Payloads == {"privet"}
Ordinals == 0 .. MaxOrdinal
\* the instants time.Now() yields, counted in hours
Times == {22}
Timezones == {"Europe/Moscow", "Mars/Phobos"}

TypeSimpleUtterance == "SimpleUtterance"

\* the value of read_at of every row: the column default
NULL == "NULL"

\* error values
nil == "nil"
ErrConflict == "ErrConflict"
ErrNoRows == "sql.ErrNoRows"
\* any other error of the driver (connection lost, data exception, ...)
ErrDriver == "driver error"

---------------------------------------------------------------------------
(* Replies.  The Russian sentences and trigger words of app.go are written  *)
(* in Latin transliteration.                                               *)

\* a reply text: a format string and its arguments (fmt.Sprintf)
Sprintf(f, a) == [fmt |-> f, args |-> a]
Fixed(s) == Sprintf(s, <<>>)

TextSent == Fixed("Soobshchenie uspeshno otpravleno")
TextNoNew == Fixed("Dlya vas net novyh soobshchenij.")
TextNoSuch == Fixed("Takogo soobshcheniya ne sushchestvuet.")
TextTaken == Fixed("Izvinite, takoe imya uzhe zanyato. Poprobujte drugoe.")
TextRegistered(username) == Sprintf("Vy uspeshno zaregistrirovany pod imenem %s", <<username>>)
TextCount(n) == Sprintf("Dlya vas %d novyh soobshchenij.", <<n>>)
TextMessage(m) == Sprintf("Soobshchenie ot %s, otpravleno %s: %s", <<m.Sender, m.Time, m.Payload>>)
TextTime(hour, minute, text) == Sprintf("Tochnoe vremya %d chasov, %d minut. %s", <<hour, minute, text>>)
\* no body was written
NoText == Fixed("")

\* the status of a request that wrote no status line: the handler panicked
\* (net/http recovers the panic and closes the connection); also the value of
\* last before the first request
Panicked == 0

---------------------------------------------------------------------------
(* Requests *)

\* the command of a request, by what the three parse functions make of it
SendCommands == [prefix : {"Otprav"}, username : Usernames, message : Payloads, index : {0}]
ReadCommands == [prefix : {"Prochitaj"}, username : {""}, message : {""}, index : Ordinals]
RegisterCommands == [prefix : {"Zaregistriruj"}, username : Usernames, message : {""}, index : {0}]
OtherCommands == [prefix : {"Privet"}, username : {""}, message : {""}, index : {0}]
Commands == SendCommands \cup ReadCommands \cup RegisterCommands \cup OtherCommands

HasPrefix(command, prefix) == command.prefix = prefix
parseSendCommand(command) == <<command.username, command.message>>
parseReadCommand(command) == command.index
parseRegisterCommand(command) == command.username

\* the zero value of models.Request, left by a failed Decode
ZeroCommand == [prefix |-> "", username |-> "", message |-> "", index |-> 0]

Requests ==
    [method : {"POST"}, decodable : {TRUE}, type : {TypeSimpleUtterance},
     command : OtherCommands, user_id : UserIDs, new : BOOLEAN, timezone : Timezones]
    \cup
    [method : {"POST"}, decodable : {TRUE}, type : {TypeSimpleUtterance},
     command : Commands \ OtherCommands, user_id : UserIDs, new : {FALSE},
     timezone : {"Europe/Moscow"}]
    \cup
    [method : {"POST"}, decodable : {TRUE}, type : {TypeSimpleUtterance},
     command : Commands \ OtherCommands, user_id : UserIDs, new : {TRUE},
     timezone : {"Mars/Phobos"}]
    \cup
    [method : {"POST"}, decodable : {TRUE}, type : {"ButtonPressed"},
     command : OtherCommands, user_id : UserIDs, new : {FALSE}, timezone : {"Europe/Moscow"}]
    \cup
    [method : {"POST"}, decodable : {FALSE}, type : {""},
     command : {ZeroCommand}, user_id : {""}, new : {FALSE}, timezone : {""}]
    \cup
    [method : {"GET"}, decodable : {TRUE}, type : {TypeSimpleUtterance, "ButtonPressed"},
     command : OtherCommands, user_id : UserIDs, new : {FALSE}, timezone : {"Europe/Moscow"}]
    \cup
    [method : {"GET"}, decodable : {FALSE}, type : {""},
     command : {ZeroCommand}, user_id : {""}, new : {FALSE}, timezone : {""}]

---------------------------------------------------------------------------
(* The store *)

Range(s) == {s[i] : i \in 1 .. Len(s)}

RECURSIVE Perms(_)
\* every sequence that enumerates the set S once
Perms(S) ==
    IF S = {} THEN {<<>>}
    ELSE UNION {{<<x>> \o p : p \in Perms(S \ {x})} : x \in S}

\* FindRecepient that drops the error of Scan: no row gives the empty id
FindRecepientNoErr(username, ok) ==
    IF ~ok THEN [userID |-> "", err |-> ErrDriver]
    ELSE IF \E id \in DOMAIN users : users[id] = username
         THEN [userID |-> CHOOSE id \in DOMAIN users : users[id] = username, err |-> nil]
         ELSE [userID |-> "", err |-> nil]

\* SELECT id FROM users WHERE username = $1
FindRecepient(username, ok) ==
    IF ~ok THEN [userID |-> "", err |-> ErrDriver]
    ELSE IF \E id \in DOMAIN users : users[id] = username
         THEN [userID |-> CHOOSE id \in DOMAIN users : users[id] = username, err |-> nil]
         ELSE [userID |-> "", err |-> ErrNoRows]

\* the rows of messages m JOIN users u ON m.sender = u.id WHERE m.recepient = $1
ListRows(userID) ==
    {[ID |-> m.id, Sender |-> users[m.sender], Time |-> m.sent_at, Payload |-> ""] :
        m \in {x \in Range(messages) : x.recepient = userID /\ x.sender \in DOMAIN users}}

\* the results the query can give: it has no ORDER BY, the rows come in any order
ListMessages(userID, ok) ==
    IF ~ok THEN {[messages |-> <<>>, err |-> ErrDriver]}
    ELSE {[messages |-> s, err |-> nil] : s \in Perms(ListRows(userID))}

\* GetMessage that returns the newest message instead of the one asked for
GetMessageLast(id, ok) ==
    LET rows == {[ID |-> m.id, Sender |-> users[m.sender], Time |-> m.sent_at,
                  Payload |-> m.payload] :
                    m \in {x \in Range(messages) : x.sender \in DOMAIN users}}
    IN IF ~ok THEN [msg |-> NULL, err |-> ErrDriver]
       ELSE IF rows = {} THEN [msg |-> NULL, err |-> ErrNoRows]
       ELSE [msg |-> CHOOSE m \in rows : \A o \in rows : o.ID <= m.ID, err |-> nil]

\* the rows of messages m JOIN users u ON m.sender = u.id WHERE m.id = $1
GetRows(id) ==
    {[ID |-> m.id, Sender |-> users[m.sender], Time |-> m.sent_at, Payload |-> m.payload] :
        m \in {x \in Range(messages) : x.id = id /\ x.sender \in DOMAIN users}}

GetMessage(id, ok) ==
    IF ~ok THEN [msg |-> NULL, err |-> ErrDriver]
    ELSE IF GetRows(id) = {} THEN [msg |-> NULL, err |-> ErrNoRows]
    ELSE [msg |-> CHOOSE m \in GetRows(id) : TRUE, err |-> nil]

\* SaveMessage with the sender and the recipient in each other's column
SaveMessageSwapped(userID, msg, now, ok) ==
    IF ~ok THEN [err |-> ErrDriver, messages |-> messages]
    ELSE [err |-> nil,
          messages |-> Append(messages,
              [id |-> nextId, sender |-> userID, recepient |-> msg.Sender,
               payload |-> msg.Payload, sent_at |-> now, read_at |-> NULL])]

\* INSERT INTO messages (sender, recepient, payload, sent_at) VALUES ($1, $2, $3, $4)
SaveMessage(userID, msg, now, ok) ==
    IF ~ok THEN [err |-> ErrDriver, messages |-> messages]
    ELSE [err |-> nil,
          messages |-> Append(messages,
              [id |-> nextId, sender |-> msg.Sender, recepient |-> userID,
               payload |-> msg.Payload, sent_at |-> now, read_at |-> NULL])]

\* the insert violates users' primary key or the unique index on username
IsIntegrityConstraintViolation(userID, username) ==
    \/ userID \in DOMAIN users
    \/ \E id \in DOMAIN users : users[id] = username

\* RegisterUser as an upsert: a registered id takes over a free username
RegisterUserUpsert(userID, username, ok) ==
    IF ~ok THEN [err |-> ErrDriver, users |-> users]
    ELSE IF \E id \in DOMAIN users : users[id] = username
         THEN [err |-> ErrConflict, users |-> users]
    ELSE [err |-> nil,
          users |-> [id \in DOMAIN users \cup {userID} |->
                        IF id = userID THEN username ELSE users[id]]]

\* RegisterUser over a users table that lacks the unique index on username
RegisterUserNoIndex(userID, username, ok) ==
    IF ~ok THEN [err |-> ErrDriver, users |-> users]
    ELSE IF userID \in DOMAIN users THEN [err |-> ErrConflict, users |-> users]
    ELSE [err |-> nil,
          users |-> [id \in DOMAIN users \cup {userID} |->
                        IF id = userID THEN username ELSE users[id]]]

\* INSERT INTO users (id, username) VALUES ($1, $2)
RegisterUser(userID, username, ok) ==
    IF ~ok THEN [err |-> ErrDriver, users |-> users]
    ELSE IF IsIntegrityConstraintViolation(userID, username)
         THEN [err |-> ErrConflict, users |-> users]
    ELSE [err |-> nil,
          users |-> [id \in DOMAIN users \cup {userID} |->
                        IF id = userID THEN username ELSE users[id]]]

---------------------------------------------------------------------------
(* time *)

\* time.LoadLocation: the offset of a zone the tz database knows
KnownZones == {"", "UTC", "Europe/Moscow"}
\* LoadLocation that falls back to UTC for a zone it does not know
LoadLocationLenient(tz) == [offset |-> IF tz = "Europe/Moscow" THEN 3 ELSE 0, err |-> nil]

LoadLocation(tz) ==
    IF tz \in KnownZones
    THEN [offset |-> IF tz = "Europe/Moscow" THEN 3 ELSE 0, err |-> nil]
    ELSE [offset |-> 0, err |-> "unknown time zone"]

\* now.In(tz).Clock(), instants counted in hours
Clock(now, tz) == <<(now + tz.offset) % 24, 0>>

---------------------------------------------------------------------------
(* The webhook *)

\* one store call of a request: operation, arguments, returned value and error
Call(op, args, ret, err) == [op |-> op, args |-> args, ret |-> ret, err |-> err]

\* the Version of models.Response; no body, no version
Version(status) == IF status = 200 THEN "1.0" ELSE ""

\* what a finished request leaves for the client: status line and body
Done(req, status, text, calls) ==
    /\ last' = [req |-> req, status |-> status, text |-> text,
                version |-> Version(status), calls |-> calls]
    /\ UNCHANGED inflight

\* no request in the handler.  rivals, fresh and overtaken record what went
\* on around the request: the requests that raced with its RegisterUser call
\* (fresh: neither caller had a user record), and whether another request
\* wrote to the database between its ListMessages and its GetMessage call
Idle == [pc |-> "idle", req |-> [method |-> "", decodable |-> FALSE, type |-> "",
                                command |-> ZeroCommand, user_id |-> "",
                                new |-> FALSE, timezone |-> ""],
         calls |-> <<>>, status |-> Panicked, text |-> NoText,
         rivals |-> {}, fresh |-> {}, overtaken |-> FALSE]

Init ==
    /\ users = <<>>
    /\ messages = <<>>
    /\ nextId = 1
    /\ inflight = [p \in UserIDs |-> Idle]
    /\ last = [req |-> [method |-> "", decodable |-> FALSE, type |-> "",
                        command |-> ZeroCommand, user_id |-> "", new |-> FALSE,
                        timezone |-> ""],
               status |-> Panicked, text |-> NoText, version |-> "", calls |-> <<>>]

\* r.Method != http.MethodPost
BadMethod ==
    \E req \in Requests :
        /\ req.method # "POST"
        /\ Done(req, 405, NoText, <<>>)
        /\ UNCHANGED <<users, messages, nextId>>

\* dec.Decode(&req) fails
BadDecode ==
    \E req \in Requests :
        /\ req.method = "POST"
        /\ ~req.decodable
        /\ Done(req, 500, NoText, <<>>)
        /\ UNCHANGED <<users, messages, nextId>>

\* req.Request.Type != models.TypeSimpleUtterance
BadType ==
    \E req \in Requests :
        /\ req.method = "POST"
        /\ req.decodable
        /\ req.type # TypeSimpleUtterance
        /\ Done(req, 422, NoText, <<>>)
        /\ UNCHANGED <<users, messages, nextId>>

Valid(req) ==
    /\ req.method = "POST"
    /\ req.decodable
    /\ req.type = TypeSimpleUtterance

\* case strings.HasPrefix(req.Request.Command, "Otprav")
SendReq ==
    \E req \in Requests, ok1 \in BOOLEAN :
        /\ Valid(req)
        /\ HasPrefix(req.command, "Otprav")
        /\ LET p == parseSendCommand(req.command)
               username == p[1]
               message == p[2]
               f == FindRecepient(username, ok1)
               c1 == Call("FindRecepient", <<username>>, f.userID, f.err)
               msg == [Sender |-> req.user_id, Payload |-> message]
           IN IF f.err # nil
              THEN /\ Done(req, 500, NoText, <<c1>>)
                   /\ UNCHANGED <<users, messages, nextId>>
              ELSE \E ok2 \in BOOLEAN, now \in Times :
                     LET s == SaveMessage(f.userID, msg, now, ok2)
                         c2 == Call("SaveMessage", <<f.userID, req.user_id, message>>, NULL, s.err)
                     IN IF s.err # nil
                        THEN /\ Done(req, 500, NoText, <<c1, c2>>)
                             /\ UNCHANGED <<users, messages, nextId>>
                        ELSE /\ Len(messages) < MaxMsgs
                             /\ messages' = s.messages
                             /\ nextId' = nextId + 1
                             /\ Done(req, 200, TextSent, <<c1, c2>>)
                             /\ UNCHANGED users

\* the read branch with a GetMessage that stamps read_at of the row it returns
ReadReqMarkRead ==
    \E req \in Requests, ok1 \in BOOLEAN :
        /\ Valid(req)
        /\ HasPrefix(req.command, "Prochitaj")
        /\ UNCHANGED <<users, nextId>>
        /\ LET messageIndex == parseReadCommand(req.command)
           IN \E l \in ListMessages(req.user_id, ok1) :
                LET c1 == Call("ListMessages", <<req.user_id>>, l.messages, l.err)
                IN IF l.err # nil
                   THEN Done(req, 500, NoText, <<c1>>) /\ UNCHANGED messages
                   ELSE IF Len(l.messages) < messageIndex
                   THEN Done(req, 200, TextNoSuch, <<c1>>) /\ UNCHANGED messages
                   ELSE IF messageIndex < 0 \/ messageIndex >= Len(l.messages)
                   THEN Done(req, Panicked, NoText, <<c1>>) /\ UNCHANGED messages
                   ELSE \E ok2 \in BOOLEAN :
                          LET messageID == l.messages[messageIndex + 1].ID
                              g == GetMessage(messageID, ok2)
                              c2 == Call("GetMessage", <<messageID>>, g.msg, g.err)
                          IN IF g.err # nil
                             THEN Done(req, 500, NoText, <<c1, c2>>) /\ UNCHANGED messages
                             ELSE /\ Done(req, 200, TextMessage(g.msg), <<c1, c2>>)
                                  /\ messages' = [i \in DOMAIN messages |->
                                        IF messages[i].id = messageID
                                        THEN [messages[i] EXCEPT !.read_at = "now()"]
                                        ELSE messages[i]]

\* case strings.HasPrefix(req.Request.Command, "Prochitaj")
ReadReq ==
    \E req \in Requests, ok1 \in BOOLEAN :
        /\ Valid(req)
        /\ HasPrefix(req.command, "Prochitaj")
        /\ UNCHANGED <<users, messages, nextId>>
        /\ LET messageIndex == parseReadCommand(req.command)
           IN \E l \in ListMessages(req.user_id, ok1) :
                LET c1 == Call("ListMessages", <<req.user_id>>, l.messages, l.err)
                IN IF l.err # nil
                   THEN Done(req, 500, NoText, <<c1>>)
                   ELSE IF Len(l.messages) < messageIndex
                   THEN Done(req, 200, TextNoSuch, <<c1>>)
                   \* messages[messageIndex]: Go slices count from 0, and an
                   \* index outside the slice panics
                   ELSE IF messageIndex < 0 \/ messageIndex >= Len(l.messages)
                   THEN Done(req, Panicked, NoText, <<c1>>)
                   ELSE \E ok2 \in BOOLEAN :
                          LET messageID == l.messages[messageIndex + 1].ID
                              g == GetMessage(messageID, ok2)
                              c2 == Call("GetMessage", <<messageID>>, g.msg, g.err)
                          IN IF g.err # nil
                             THEN Done(req, 500, NoText, <<c1, c2>>)
                             ELSE Done(req, 200, TextMessage(g.msg), <<c1, c2>>)

\* case strings.HasPrefix(req.Request.Command, "Zaregistriruj")
RegisterReq ==
    \E req \in Requests, ok1 \in BOOLEAN :
        /\ Valid(req)
        /\ HasPrefix(req.command, "Zaregistriruj")
        /\ LET username == parseRegisterCommand(req.command)
               r == RegisterUser(req.user_id, username, ok1)
               c1 == Call("RegisterUser", <<req.user_id, username>>, NULL, r.err)
           IN /\ users' = r.users
              /\ IF r.err # nil /\ r.err # ErrConflict
                 THEN Done(req, 500, NoText, <<c1>>)
                 ELSE IF r.err = ErrConflict
                 THEN Done(req, 200, TextTaken, <<c1>>)
                 ELSE Done(req, 200, TextRegistered(username), <<c1>>)
        /\ UNCHANGED <<messages, nextId>>

\* default:
DefaultReq ==
    \E req \in Requests, ok1 \in BOOLEAN :
        /\ Valid(req)
        /\ ~HasPrefix(req.command, "Otprav")
        /\ ~HasPrefix(req.command, "Prochitaj")
        /\ ~HasPrefix(req.command, "Zaregistriruj")
        /\ UNCHANGED <<users, messages, nextId>>
        /\ \E l \in ListMessages(req.user_id, ok1) :
             LET c1 == Call("ListMessages", <<req.user_id>>, l.messages, l.err)
                 text == IF Len(l.messages) > 0 THEN TextCount(Len(l.messages))
                         ELSE TextNoNew
                 tz == LoadLocation(req.timezone)
             IN IF l.err # nil
                THEN Done(req, 500, NoText, <<c1>>)
                ELSE IF ~req.new
                THEN Done(req, 200, text, <<c1>>)
                ELSE IF tz.err # nil
                THEN Done(req, 400, NoText, <<c1>>)
                ELSE \E now \in Times :
                       LET clock == Clock(now, tz)
                       IN Done(req, 200, TextTime(clock[1], clock[2], text), <<c1>>)

Next ==
    \/ BadMethod
    \/ BadDecode
    \/ BadType
    \/ SendReq
    \/ ReadReq
    \/ RegisterReq
    \/ DefaultReq

Spec == Init /\ [][Next]_vars

---------------------------------------------------------------------------
(* Concurrent requests.  net/http runs webhook in one goroutine per        *)
(* request; the requests share nothing but the database, where every       *)
(* statement of the store is atomic.  A step is one store call together    *)
(* with the handler code that follows it up to the next store call.        *)

\* usernames of the register commands of concurrent requests
ConcUsernames == Usernames \cup {"carol"}

\* the requests a caller has in flight: valid ones, not a first turn
ConcRequests(p) ==
    [method : {"POST"}, decodable : {TRUE}, type : {TypeSimpleUtterance},
     command : SendCommands \cup ReadCommands \cup OtherCommands
               \cup [prefix : {"Zaregistriruj"}, username : ConcUsernames,
                     message : {""}, index : {0}],
     user_id : {p}, new : {FALSE}, timezone : {"Europe/Moscow"}]

\* the first store call of each branch of the switch
FirstCall(command) ==
    IF HasPrefix(command, "Otprav") THEN "FindRecepient"
    ELSE IF HasPrefix(command, "Prochitaj") THEN "ListMessages"
    ELSE IF HasPrefix(command, "Zaregistriruj") THEN "RegisterUser"
    ELSE "ListMessages (default)"

\* the request of p goes on to its next store call
Continue(p, pc, calls) ==
    inflight' = [inflight EXCEPT ![p].pc = pc, ![p].calls = calls]

\* the request of p ends
Finish(p, status, text, calls) ==
    inflight' = [inflight EXCEPT ![p].pc = "done", ![p].status = status,
                                 ![p].text = text, ![p].calls = calls]

\* the requests other than p, after a write of p to the database
Overtake(p, q) ==
    IF q # p /\ inflight[q].pc = "GetMessage"
    THEN [inflight[q] EXCEPT !.overtaken = TRUE]
    ELSE inflight[q]

\* webhook is entered with a request of caller p and reaches the switch
Accept(p) ==
    \E req \in ConcRequests(p) :
        /\ inflight[p].pc \in {"idle", "done"}
        /\ inflight' = [q \in UserIDs |->
              IF q = p
              THEN [Idle EXCEPT !.pc = FirstCall(req.command), !.req = req]
              ELSE [inflight[q] EXCEPT !.rivals = @ \ {p}, !.fresh = @ \ {p}]]
        /\ UNCHANGED <<users, messages, nextId, last>>

\* a.store.FindRecepient of a send request
CallFindRecepient(p) ==
    \E ok \in BOOLEAN :
        /\ inflight[p].pc = "FindRecepient"
        /\ LET username == parseSendCommand(inflight[p].req.command)[1]
               f == FindRecepient(username, ok)
               c1 == Call("FindRecepient", <<username>>, f.userID, f.err)
           IN IF f.err # nil
              THEN Finish(p, 500, NoText, <<c1>>)
              ELSE Continue(p, "SaveMessage", <<c1>>)
        /\ UNCHANGED <<users, messages, nextId, last>>

\* a.store.SaveMessage of a send request
CallSaveMessage(p) ==
    \E ok \in BOOLEAN, now \in Times :
        /\ inflight[p].pc = "SaveMessage"
        /\ LET req == inflight[p].req
               c1 == inflight[p].calls[1]
               message == parseSendCommand(req.command)[2]
               msg == [Sender |-> req.user_id, Payload |-> message]
               s == SaveMessage(c1.ret, msg, now, ok)
               c2 == Call("SaveMessage", <<c1.ret, req.user_id, message>>, NULL, s.err)
           IN IF s.err # nil
              THEN /\ Finish(p, 500, NoText, <<c1, c2>>)
                   /\ UNCHANGED <<users, messages, nextId, last>>
              ELSE /\ Len(messages) < MaxMsgs
                   /\ messages' = s.messages
                   /\ nextId' = nextId + 1
                   /\ inflight' = [q \in UserIDs |->
                         IF q = p
                         THEN [inflight[p] EXCEPT !.pc = "done", !.status = 200,
                                                  !.text = TextSent, !.calls = <<c1, c2>>]
                         ELSE Overtake(p, q)]
                   /\ UNCHANGED <<users, last>>

\* a.store.ListMessages of a read request
CallListMessages(p) ==
    \E ok \in BOOLEAN :
        /\ inflight[p].pc = "ListMessages"
        /\ UNCHANGED <<users, messages, nextId, last>>
        /\ LET messageIndex == parseReadCommand(inflight[p].req.command)
           IN \E l \in ListMessages(p, ok) :
                LET c1 == Call("ListMessages", <<p>>, l.messages, l.err)
                IN IF l.err # nil
                   THEN Finish(p, 500, NoText, <<c1>>)
                   ELSE IF Len(l.messages) < messageIndex
                   THEN Finish(p, 200, TextNoSuch, <<c1>>)
                   ELSE IF messageIndex < 0 \/ messageIndex >= Len(l.messages)
                   THEN Finish(p, Panicked, NoText, <<c1>>)
                   ELSE Continue(p, "GetMessage", <<c1>>)

\* a.store.GetMessage of a read request
CallGetMessage(p) ==
    \E ok \in BOOLEAN :
        /\ inflight[p].pc = "GetMessage"
        /\ UNCHANGED <<users, messages, nextId, last>>
        /\ LET c1 == inflight[p].calls[1]
               messageIndex == parseReadCommand(inflight[p].req.command)
               messageID == c1.ret[messageIndex + 1].ID
               g == GetMessage(messageID, ok)
               c2 == Call("GetMessage", <<messageID>>, g.msg, g.err)
           IN IF g.err # nil
              THEN Finish(p, 500, NoText, <<c1, c2>>)
              ELSE Finish(p, 200, TextMessage(g.msg), <<c1, c2>>)

\* the requests that wait to register the username p registers, when nobody
\* holds it
Rivals(p, username) ==
    IF \E id \in DOMAIN users : users[id] = username THEN {}
    ELSE {q \in UserIDs \ {p} :
            /\ inflight[q].pc = "RegisterUser"
            /\ parseRegisterCommand(inflight[q].req.command) = username}

\* a.store.RegisterUser of a register request
CallRegisterUser(p) ==
    \E ok \in BOOLEAN :
        /\ inflight[p].pc = "RegisterUser"
        /\ LET username == parseRegisterCommand(inflight[p].req.command)
               r == RegisterUser(p, username, ok)
               c1 == Call("RegisterUser", <<p, username>>, NULL, r.err)
               status == IF r.err # nil /\ r.err # ErrConflict THEN 500 ELSE 200
               text == IF r.err # nil /\ r.err # ErrConflict THEN NoText
                       ELSE IF r.err = ErrConflict THEN TextTaken
                       ELSE TextRegistered(username)
               rivals == Rivals(p, username)
           IN /\ users' = r.users
              /\ inflight' = [q \in UserIDs |->
                    IF q = p
                    THEN [inflight[p] EXCEPT
                            !.pc = "done", !.status = status, !.text = text,
                            !.calls = <<c1>>, !.rivals = rivals,
                            !.fresh = {x \in rivals :
                                         p \notin DOMAIN users /\ x \notin DOMAIN users}]
                    ELSE IF r.err = nil THEN Overtake(p, q) ELSE inflight[q]]
        /\ UNCHANGED <<messages, nextId, last>>

\* a.store.ListMessages of the default branch
CallListMessagesDefault(p) ==
    \E ok \in BOOLEAN :
        /\ inflight[p].pc = "ListMessages (default)"
        /\ UNCHANGED <<users, messages, nextId, last>>
        /\ \E l \in ListMessages(p, ok) :
             LET c1 == Call("ListMessages", <<p>>, l.messages, l.err)
                 text == IF Len(l.messages) > 0 THEN TextCount(Len(l.messages))
                         ELSE TextNoNew
             IN IF l.err # nil
                THEN Finish(p, 500, NoText, <<c1>>)
                ELSE Finish(p, 200, text, <<c1>>)

NextConc ==
    \E p \in UserIDs :
        \/ Accept(p)
        \/ CallFindRecepient(p)
        \/ CallSaveMessage(p)
        \/ CallListMessages(p)
        \/ CallGetMessage(p)
        \/ CallRegisterUser(p)
        \/ CallListMessagesDefault(p)

SpecConc == Init /\ [][NextConc]_vars

---------------------------------------------------------------------------
(* Vocabulary of the properties.  In every state, last is the request the  *)
(* step into this state handled; in a step, last' is the request the step  *)
(* handles, the unprimed store is the store before it and the primed store *)
(* the store after it.                                                     *)

Handled(l, prefix) ==
    /\ l.req.method = "POST"
    /\ l.req.decodable
    /\ l.req.type = TypeSimpleUtterance
    /\ l.req.command.prefix = prefix

\* no store call of the request failed in the driver
NoDriverError(l) == \A i \in 1 .. Len(l.calls) : l.calls[i].err # ErrDriver

Says(l, t) == l.text.fmt = t.fmt /\ l.text.args = t.args

Owner(username) == {id \in DOMAIN users : users[id] = username}

StoreUnchanged == UNCHANGED <<users, messages, nextId>>

UniqueUsernames ==
    \A a, b \in DOMAIN users : users[a] = users[b] => a = b

\* C1: no two user ids are ever stored with one username; and a register
\* request of user id B for a username that another user id A holds is never
\* successful: RegisterUser returns ErrConflict (unless the driver fails), and
\* the users table, so A's username and B's absence or record, stays as it was.
C1_UsernameUniqueness ==
    [][ /\ UniqueUsernames'
        /\ (/\ Handled(last', "Zaregistriruj")
            /\ \E a \in Owner(last'.req.command.username) : a # last'.req.user_id)
           => /\ Len(last'.calls) = 1
              /\ last'.calls[1].op = "RegisterUser"
              /\ last'.calls[1].args = <<last'.req.user_id, last'.req.command.username>>
              /\ last'.calls[1].err \in {ErrConflict, ErrDriver}
              /\ NoDriverError(last') => last'.calls[1].err = ErrConflict
              /\ users' = users
      ]_vars

\* C1 witness: B, who has no record, asked for the name A holds and got ErrConflict
C1_Witness ==
    /\ Handled(last, "Zaregistriruj")
    /\ last.calls[1].err = ErrConflict
    /\ last.req.user_id \notin DOMAIN users
    /\ \E a \in Owner(last.req.command.username) : a # last.req.user_id

\* C2: a read request whose ordinal is no position of the list ListMessages
\* returned (positions are 0 .. length - 1) ends with 200 and the fixed
\* "no such message" sentence, calls nothing after ListMessages and leaves
\* the store as it was.
C2_ReadOutOfRange ==
    [][ (/\ Handled(last', "Prochitaj")
         /\ last'.calls[1].err = nil
         /\ ~(/\ 0 <= last'.req.command.index
              /\ last'.req.command.index < Len(last'.calls[1].ret)))
        => /\ last'.status = 200
           /\ Says(last', TextNoSuch)
           /\ Len(last'.calls) = 1
           /\ StoreUnchanged
      ]_vars

\* C3: a send request of caller c for a username that user id r holds, with
\* body b, in which no store call fails in the driver, appends exactly the
\* row (sender c, recipient r, payload b) to messages, leaves every other row
\* and the users table as they were, and replies 200 with the fixed sentence.
C3_Send ==
    [][ (/\ Handled(last', "Otprav")
         /\ Owner(last'.req.command.username) # {}
         /\ NoDriverError(last'))
        => /\ Len(messages') = Len(messages) + 1
           /\ SubSeq(messages', 1, Len(messages)) = messages
           /\ LET m == messages'[Len(messages')]
              IN /\ m.sender = last'.req.user_id
                 /\ m.recepient \in Owner(last'.req.command.username)
                 /\ m.payload = last'.req.command.message
                 /\ \A i \in 1 .. Len(messages) : messages[i].id # m.id
           /\ users' = users
           /\ last'.status = 200
           /\ Says(last', TextSent)
      ]_vars

\* C3 witness: a message of an unregistered caller to a registered name was stored
C3_Witness ==
    /\ Handled(last, "Otprav")
    /\ last.status = 200
    /\ Says(last, TextSent)
    /\ Len(messages) >= 2
    /\ last.req.user_id \notin DOMAIN users
    /\ messages[Len(messages)].sender = last.req.user_id
    /\ messages[Len(messages)].payload = "privet"

\* C4: after a successful SaveMessage(r, message with Sender = s) the list of
\* r has exactly one more entry than before, and the new entry's sender is s.
C4_ListAfterSave ==
    [][ \A r, s \in UserIDs :
          (/\ Handled(last', "Otprav")
           /\ Len(last'.calls) = 2
           /\ last'.calls[2].op = "SaveMessage"
           /\ last'.calls[2].err = nil
           /\ last'.calls[2].args[1] = r
           /\ last'.calls[2].args[2] = s)
          => /\ Cardinality(ListRows(r)') = Cardinality(ListRows(r)) + 1
             /\ \A e \in ListRows(r)' \ ListRows(r) : e.Sender = s
      ]_vars

\* C5: a register request makes exactly one RegisterUser(caller, username)
\* call and ends in one of three ways: success, 200 and the confirmation
\* naming the username; ErrConflict, 200 and the fixed "name taken" sentence,
\* and the caller is not registered with that username afterwards; any other
\* error, 500 and no body.
C5_RegisterOutcomes ==
    Handled(last, "Zaregistriruj")
    => /\ Len(last.calls) = 1
       /\ last.calls[1].op = "RegisterUser"
       /\ last.calls[1].args = <<last.req.user_id, last.req.command.username>>
       /\ CASE last.calls[1].err = nil ->
                 /\ last.status = 200
                 /\ Says(last, TextRegistered(last.req.command.username))
            [] last.calls[1].err = ErrConflict ->
                 /\ last.status = 200
                 /\ Says(last, TextTaken)
                 /\ last.req.user_id \notin Owner(last.req.command.username)
            [] OTHER ->
                 /\ last.status = 500
                 /\ Says(last, NoText)

\* C6: RegisterUser returns ErrConflict only when another user id holds the
\* requested username.
C6_ConflictOnlyForTakenName ==
    (/\ Handled(last, "Zaregistriruj")
     /\ last.calls[1].err = ErrConflict)
    => \E a \in Owner(last.req.command.username) : a # last.req.user_id

\* C7: the sender and the recipient of every stored message are ids of rows
\* of the users table.
C7_ReferentialIntegrity ==
    \A i \in 1 .. Len(messages) :
        /\ messages[i].sender \in DOMAIN users
        /\ messages[i].recepient \in DOMAIN users

Ascending(list) ==
    \A i, j \in 1 .. Len(list) : i < j => list[i].ID < list[j].ID

Listed(l) ==
    /\ l.req.method = "POST"
    /\ Len(l.calls) >= 1
    /\ l.calls[1].op = "ListMessages"
    /\ l.calls[1].err = nil

\* C8: every list ListMessages returns is ascending by message id, and two
\* listings of one user with no change of the store in between are equal.
C8_StableOrder ==
    [][ Listed(last')
        => /\ Ascending(last'.calls[1].ret)
           /\ (Listed(last) /\ last.calls[1].args = last'.calls[1].args)
              => last'.calls[1].ret = last.calls[1].ret
      ]_vars

\* C9: GetMessage on the id of every stored message succeeds and returns the
\* payload the message was saved with.
C9_GetRoundTrip ==
    \A i \in 1 .. Len(messages) :
        LET g == GetMessage(messages[i].id, TRUE)
        IN /\ g.err = nil
           /\ g.msg.Payload = messages[i].payload

Addressed(userID) == {i \in 1 .. Len(messages) : messages[i].recepient = userID}

\* C10: a request with none of the three triggers (session.new false) whose
\* ListMessages call succeeds makes that one call, leaves the store as it
\* was and replies 200: with the count k of the messages addressed to the
\* caller when k > 0, with the fixed "no new messages" sentence when k = 0.
C10_DefaultIntent ==
    [][ (/\ Handled(last', "Privet")
         /\ ~last'.req.new
         /\ NoDriverError(last'))
        => LET k == Cardinality(Addressed(last'.req.user_id))
           IN /\ Len(last'.calls) = 1
              /\ last'.calls[1].op = "ListMessages"
              /\ last'.calls[1].args = <<last'.req.user_id>>
              /\ last'.status = 200
              /\ IF k > 0 THEN Says(last', TextCount(k)) ELSE Says(last', TextNoNew)
              /\ StoreUnchanged
      ]_vars

Statuses == {200, 400, 405, 422, 500}

\* C11: every request ends with one status of 200, 400, 405, 422, 500; the
\* checks run in the order method, decode, request type: a request that is
\* not a POST ends with 405, an undecodable POST with 500, a decodable POST of
\* another type with 422, each without a store call and with the store as it
\* was; a 200 carries a text and version "1.0", every other outcome no body.
C11_TransportOutcomes ==
    [][ /\ last'.status \in Statuses
        /\ last'.req.method # "POST"
           => last'.status = 405 /\ last'.calls = <<>> /\ StoreUnchanged
        /\ (last'.req.method = "POST" /\ ~last'.req.decodable)
           => last'.status = 500 /\ last'.calls = <<>> /\ StoreUnchanged
        /\ (/\ last'.req.method = "POST"
            /\ last'.req.decodable
            /\ last'.req.type # TypeSimpleUtterance)
           => last'.status = 422 /\ last'.calls = <<>> /\ StoreUnchanged
        /\ last'.status = 200 => last'.text.fmt # "" /\ last'.version = "1.0"
        /\ last'.status # 200 => last'.text.fmt = "" /\ last'.version = ""
      ]_vars

\* the request took the default branch and its ListMessages call succeeded
DefaultListed(l) ==
    /\ Handled(l, "Privet")
    /\ Len(l.calls) = 1
    /\ l.calls[1].op = "ListMessages"
    /\ l.calls[1].err = nil

CountSentence(list) == IF Len(list) > 0 THEN TextCount(Len(list)) ELSE TextNoNew

\* C12: a request ends with 400 exactly when it takes the default branch
\* with session.new true, its ListMessages call succeeded and its timezone is
\* not one the tz database resolves, and then no text is sent; on such a first
\* turn with a resolvable timezone the reply is the local-time sentence (Moscow
\* is UTC+3) followed by the count sentence of the list; so send, read and
\* register requests never end with 400, whatever session.new and timezone are.
C12_Timezone ==
    [][ /\ last'.status = 400
           <=> /\ DefaultListed(last')
               /\ last'.req.new
               /\ last'.req.timezone \notin KnownZones
        /\ last'.status = 400 => last'.text.fmt = ""
        /\ (/\ DefaultListed(last')
            /\ last'.req.new
            /\ last'.req.timezone = "Europe/Moscow")
           => /\ last'.status = 200
              /\ last'.text.fmt = "Tochnoe vremya %d chasov, %d minut. %s"
              /\ \E now \in Times : last'.text.args[1] = (now + 3) % 24
              /\ last'.text.args[2] = 0
              /\ last'.text.args[3] = CountSentence(last'.calls[1].ret)
      ]_vars

\* C12 witness: the first turn of a registered caller with an unknown timezone
\* ended with 400
C12_Witness ==
    /\ last.status = 400
    /\ last.req.timezone = "Mars/Phobos"
    /\ last.req.user_id \in DOMAIN users

Failed(c) == c.err # nil /\ c.err # ErrConflict

\* C13: in every request the first store call that fails with an error other
\* than ErrConflict is the last call of the request, which ends with 500 and
\* no body; no operation is called twice with the same arguments; and a send
\* request whose recipient name nobody holds makes the one call FindRecepient,
\* which fails, never calls SaveMessage and leaves the store as it was.
C13_NoRetry ==
    [][ /\ \A i \in 1 .. Len(last'.calls) :
             Failed(last'.calls[i])
             => /\ i = Len(last'.calls)
                /\ last'.status = 500
                /\ last'.text.fmt = ""
        /\ \A i, j \in 1 .. Len(last'.calls) :
             i < j => ~(/\ last'.calls[i].op = last'.calls[j].op
                        /\ last'.calls[i].args = last'.calls[j].args)
        /\ (Handled(last', "Otprav") /\ Owner(last'.req.command.username) = {})
           => /\ Len(last'.calls) = 1
              /\ last'.calls[1].op = "FindRecepient"
              /\ last'.calls[1].args = <<last'.req.command.username>>
              /\ Failed(last'.calls[1])
              /\ last'.status = 500
              /\ StoreUnchanged
      ]_vars

\* C13 witness: a send request to a name nobody holds ended with 500 after
\* the one call FindRecepient, with messages in the store
C13_Witness ==
    /\ Handled(last, "Otprav")
    /\ Owner(last.req.command.username) = {}
    /\ last.calls[1].err = ErrNoRows
    /\ last.status = 500
    /\ Len(messages) > 0

\* C14: no request changes or removes the username of a user id that has one;
\* the users table changes only in a register request that ends with the
\* confirmation, and then by the one new record (caller, requested username).
C14_UserLifecycle ==
    [][ /\ \A id \in DOMAIN users : id \in DOMAIN users' /\ users'[id] = users[id]
        /\ Cardinality(DOMAIN users') <= Cardinality(DOMAIN users) + 1
        /\ users' # users
           => /\ Handled(last', "Zaregistriruj")
              /\ last'.status = 200
              /\ Says(last', TextRegistered(last'.req.command.username))
              /\ DOMAIN users' = DOMAIN users \cup {last'.req.user_id}
              /\ users'[last'.req.user_id] = last'.req.command.username
      ]_vars

\* C14 witness: a registered caller asked for another, free username and kept
\* the username it had
C14_Witness ==
    /\ Handled(last, "Zaregistriruj")
    /\ last.req.user_id \in DOMAIN users
    /\ users[last.req.user_id] # last.req.command.username
    /\ Owner(last.req.command.username) = {}
    /\ last.status = 200

ListedIDs(userID) == {e.ID : e \in ListRows(userID)}

\* a read request that ended with the text of a message
ReadDone(l) ==
    /\ Handled(l, "Prochitaj")
    /\ l.status = 200
    /\ Len(l.calls) = 2

\* C15: a read request and a default request leave the store as it was,
\* whatever their outcome; no request removes or changes a row of messages,
\* and read_at of every row stays NULL; so the list of no user gets shorter,
\* and the message a read request returned is listed for its caller after the
\* next request too.
C15_MonotoneMailbox ==
    [][ /\ (Handled(last', "Prochitaj") \/ Handled(last', "Privet")) => StoreUnchanged
        /\ Len(messages') >= Len(messages)
        /\ \A i \in 1 .. Len(messages) : messages'[i] = messages[i]
        /\ \A i \in 1 .. Len(messages') : messages'[i].read_at = NULL
        /\ \A u \in UserIDs :
             /\ Cardinality(ListRows(u)') >= Cardinality(ListRows(u))
             /\ (ReadDone(last) /\ last.req.user_id = u)
                => \E id \in ListedIDs(u)' : id = last.calls[2].args[1]
             /\ (ReadDone(last') /\ last'.req.user_id = u)
                => \E id \in ListedIDs(u)' : id = last'.calls[2].args[1]
      ]_vars

\* C15 witness: a caller with two listed messages was read the message at
\* position 1, and both messages are listed
C15_Witness ==
    /\ ReadDone(last)
    /\ last.req.command.index = 1
    /\ last.calls[2].args[1] \in ListedIDs(last.req.user_id)
    /\ Cardinality(ListedIDs(last.req.user_id)) = 2

\* the register request of p, finished
Registered(p) ==
    /\ inflight[p].pc = "done"
    /\ Handled(inflight[p], "Zaregistriruj")

\* what C16 says of two finished register requests of p and q for one name
OneWinner(p, q) ==
    LET u == inflight[p].req.command.username
        ep == inflight[p].calls[1].err
        eq == inflight[q].calls[1].err
    IN /\ ep # ErrDriver => inflight[p].status = 200
       /\ eq # ErrDriver => inflight[q].status = 200
       /\ (ep # ErrDriver /\ eq # ErrDriver)
          => /\ \/ Says(inflight[p], TextRegistered(u)) /\ Says(inflight[q], TextTaken)
                \/ Says(inflight[q], TextRegistered(u)) /\ Says(inflight[p], TextTaken)
             /\ Cardinality(Owner(u)) = 1

\* C16 as claimed: when the register requests of two user ids for one free
\* username are in flight together, then in every interleaving, once both
\* have ended, neither ended with 500 unless its store call failed in the
\* driver, and without such a failure one got the confirmation, the other the
\* fixed "name taken" sentence and exactly one user record holds the username.
C16_ConcurrentRegistration ==
    \A p, q \in UserIDs :
        (q \in inflight[p].rivals /\ Registered(p) /\ Registered(q))
        => OneWinner(p, q)

\* C16 amended: the same, for two user ids that have no user record yet
\* when the first of the two RegisterUser calls is made.
C16_ConcurrentRegistrationFresh ==
    \A p, q \in UserIDs :
        (q \in inflight[p].fresh /\ Registered(p) /\ Registered(q))
        => OneWinner(p, q)

\* C16 witness: both requests were in flight for the free name, the one that
\* called RegisterUser first got the confirmation, the other "name taken"
C16_Witness ==
    \E p, q \in UserIDs :
        /\ q \in inflight[p].fresh
        /\ Registered(p)
        /\ Registered(q)
        /\ Says(inflight[p], TextRegistered(inflight[p].req.command.username))
        /\ Says(inflight[q], TextTaken)
        /\ inflight[q].calls[1].err = ErrConflict

\* C17: in a read request with an in-range ordinal, the message id taken from
\* the list resolves in GetMessage whatever the requests of the other callers
\* do in between: while the request waits for GetMessage the message can be
\* got, and once it has ended it has 500 only if GetMessage failed in the
\* driver, and otherwise 200 with the sender of the listed entry and the
\* payload of the stored message of that id.
C17_ListThenGet ==
    \A p \in UserIDs :
        LET c == inflight[p].calls
            listed == c[1].ret[inflight[p].req.command.index + 1]
        IN /\ inflight[p].pc = "GetMessage" => GetMessage(listed.ID, TRUE).err = nil
           /\ (/\ inflight[p].pc = "done"
               /\ Handled(inflight[p], "Prochitaj")
               /\ Len(c) = 2)
              => /\ c[2].args = <<listed.ID>>
                 /\ c[2].err \in {nil, ErrDriver}
                 /\ inflight[p].status = (IF c[2].err = nil THEN 200 ELSE 500)
                 /\ c[2].err = nil
                    => /\ c[2].ret.ID = listed.ID
                       /\ c[2].ret.Sender = listed.Sender
                       /\ \E i \in 1 .. Len(messages) :
                            /\ messages[i].id = listed.ID
                            /\ messages[i].payload = c[2].ret.Payload
                            /\ Says(inflight[p], TextMessage(
                                 [Sender |-> listed.Sender, Time |-> listed.Time,
                                  Payload |-> messages[i].payload]))

\* C17 witness: a read request ended with the text of the listed message
\* after another request wrote to the database between its two store calls
C17_Witness ==
    \E p \in UserIDs :
        /\ inflight[p].pc = "done"
        /\ Handled(inflight[p], "Prochitaj")
        /\ inflight[p].overtaken
        /\ inflight[p].status = 200
        /\ Len(inflight[p].calls) = 2
        /\ Len(inflight[p].calls[1].ret) < Cardinality(ListRows(p))

====
